---- MODULE Spec2Model ----
(***************************************************************************)
(* Model of paper_trading_bot.py: MarketDataHandler (the price feed),      *)
(* TradeEngine (rolling window and crossover signal), PaperTradeSimulator  *)
(* (balance, holdings, ledger, win/loss counters) and the trade_dashboard  *)
(* loop that wires them together.                                          *)
(*                                                                         *)
(* Python floats are modelled as exact rationals <<n, d>> in lowest terms  *)
(* with d > 0; Python's None is the empty tuple.                           *)
(***************************************************************************)
EXTENDS Integers, Sequences, FiniteSets, TLC

VARIABLES
    prices,          \* TradeEngine.prices
    last_buy_price,  \* TradeEngine.last_buy_price
    balance,         \* PaperTradeSimulator.balance
    holdings,        \* PaperTradeSimulator.holdings
    trade_history,   \* PaperTradeSimulator.trade_history
    wins,            \* PaperTradeSimulator.wins
    losses,          \* PaperTradeSimulator.losses
    price,           \* trade_dashboard local: result of market.get_price()
    signal,          \* trade_dashboard local: result of generate_signal()
    trade_message,   \* trade_dashboard local: result of execute_trade()
    short_ema,       \* generate_signal local of the latest call
    long_ema,        \* generate_signal local of the latest call
    pc,              \* position of trade_dashboard
    error,           \* exception that left trade_dashboard / the last call
    ticks,           \* number of loop iterations (or direct calls) started
    changes,         \* number of times the fed price differed from the previous one
    observed,        \* history: every price passed to update_price, in order
    buy_signals,     \* history: every price at which generate_signal returned BUY
    keybuf           \* terminal input queue read by stdscr.getch()

vars == <<prices, last_buy_price, balance, holdings, trade_history, wins,
          losses, price, signal, trade_message, short_ema, long_ema, pc,
          error, ticks, changes, observed, buy_signals, keybuf>>

engineVars == <<prices, last_buy_price, short_ema, long_ema, observed, buy_signals>>
simVars    == <<balance, holdings, trade_history, wins, losses>>

----------------------------------------------------------------------------
(* Bounds of the model *)

\* prices the feed can return (whole currency units)
Prices == {100, 101, 102}
\* loop iterations explored by Spec
MaxTicks == 18
\* times the fed price may differ from the previous one in Spec
MaxChanges == 3
\* update_price calls explored by WindowSpec
WinMaxObs == 52
\* price changes explored by WindowSpec
WinMaxChanges == 1
\* direct execute_trade calls explored by SimSpec
MaxCalls == 5
\* loop iterations explored by QuitSpec
QuitMaxTicks == 3
\* keys that can wait in the input queue in QuitSpec
MaxPending == 2
\* constructor arguments explored by SimSpec
InitBalances == {0, 230}

----------------------------------------------------------------------------
(* Program constants *)

WindowCap == 50
MinSamples == 16
ShortLen == 8
LongLen == 16
InitialBalance == 230

None == << >>

----------------------------------------------------------------------------
(* Exact arithmetic standing for the float operations of the source *)

Abs(n) == IF n < 0 THEN -n ELSE n

RECURSIVE GCD(_, _)
GCD(a, b) == IF b = 0 THEN a ELSE GCD(b, a % b)

Norm(n, d) ==
    LET g == GCD(Abs(n), d)
    IN  IF n = 0 THEN <<0, 1>> ELSE <<n \div g, d \div g>>

R(n) == <<n, 1>>
Zero == R(0)
One == R(1)
\* sums over the least common denominator, products after cross-cancelling,
\* so that intermediate values stay small
RAdd(x, y) ==
    LET g == GCD(x[2], y[2])
    IN  Norm(x[1] * (y[2] \div g) + y[1] * (x[2] \div g), (x[2] \div g) * y[2])

RNeg(x) == <<-x[1], x[2]>>

RSub(x, y) == RAdd(x, RNeg(y))

RMul(x, y) ==
    LET g1 == GCD(Abs(x[1]), y[2])
        g2 == GCD(Abs(y[1]), x[2])
    IN  IF x[1] = 0 \/ y[1] = 0 THEN <<0, 1>>
        ELSE <<(x[1] \div g1) * (y[1] \div g2), (x[2] \div g2) * (y[2] \div g1)>>

\* x / y for y > 0
RDiv(x, y) == RMul(x, <<y[2], y[1]>>)

RLt(x, y) ==
    LET g == GCD(x[2], y[2])
    IN  x[1] * (y[2] \div g) < y[1] * (x[2] \div g)

RLe(x, y) == ~ RLt(y, x)

\* variant: the whole balance is allocated
AllocationAll == <<1, 1>>

AllocationFraction == <<3, 4>>
RebuyFactor == <<1001, 1000>>
SharpDropFactor == <<999, 1000>>
ProfitThreshold == One
Hundred == R(100)

\* ps[-k:]
Last(ps, k) ==
    IF Len(ps) <= k THEN ps ELSE SubSeq(ps, Len(ps) - k + 1, Len(ps))

\* sum(ps)
RECURSIVE Sum(_)
Sum(ps) == IF ps = << >> THEN Zero ELSE RAdd(ps[1], Sum(Tail(ps)))

----------------------------------------------------------------------------
(* TradeEngine *)

\* variant: evicts the newest sample instead of the oldest
update_price_evict_newest(ps, p) ==
    LET appended == Append(ps, p)
    IN  IF Len(appended) > WindowCap
        THEN SubSeq(appended, 1, Len(appended) - 1)
        ELSE appended

update_price(ps, p) ==
    LET appended == Append(ps, p)
    IN  IF Len(appended) > WindowCap THEN Tail(appended) ELSE appended

\* variant: waits for the short window only
insufficient_data_short(ps) == Len(ps) < ShortLen

insufficient_data(ps) == Len(ps) < MinSamples

\* variant: re-buys at any price not below the last buy
rebuy_allowed_no_margin(lbp, latest) ==
    lbp = None \/ RLe(lbp, latest)

\* self.last_buy_price is None or self.prices[-1] > self.last_buy_price * 1.001
rebuy_allowed(lbp, latest) ==
    lbp = None \/ RLt(RMul(lbp, RebuyFactor), latest)

\* variant: elif short_ema <= long_ema
select_signal_sell_on_tie(se, le, allowed) ==
    IF RLt(le, se) /\ allowed THEN "BUY"
    ELSE IF RLe(se, le) THEN "SELL"
    ELSE "HOLD"

\* the if / elif / else over the two averages
select_signal(se, le, allowed) ==
    IF RLt(le, se) /\ allowed THEN "BUY"
    ELSE IF RLt(se, le) THEN "SELL"
    ELSE "HOLD"

\* variant: a SELL signal clears last_buy_price
generate_signal_reset_on_sell(ps, lbp) ==
    IF insufficient_data(ps)
    THEN [signal |-> "HOLD", last_buy_price |-> lbp,
          short_ema |-> None, long_ema |-> None]
    ELSE LET se == RDiv(Sum(Last(ps, ShortLen)), R(8))
             le == RDiv(Sum(Last(ps, LongLen)), R(16))
             latest == ps[Len(ps)]
             sig == select_signal(se, le, rebuy_allowed(lbp, latest))
         IN  [signal |-> sig,
              last_buy_price |-> IF sig = "BUY" THEN latest
                                 ELSE IF sig = "SELL" THEN None ELSE lbp,
              short_ema |-> se, long_ema |-> le]

\* the value returned, with the engine field and the locals the call leaves
generate_signal(ps, lbp) ==
    IF insufficient_data(ps)
    THEN [signal |-> "HOLD", last_buy_price |-> lbp,
          short_ema |-> None, long_ema |-> None]
    ELSE LET se == RDiv(Sum(Last(ps, ShortLen)), R(8))
             le == RDiv(Sum(Last(ps, LongLen)), R(16))
             latest == ps[Len(ps)]
             sig == select_signal(se, le, rebuy_allowed(lbp, latest))
         IN  [signal |-> sig,
              last_buy_price |-> IF sig = "BUY" THEN latest ELSE lbp,
              short_ema |-> se, long_ema |-> le]

----------------------------------------------------------------------------
(* PaperTradeSimulator *)

\* the simulator object as one value
Sim(b, h, th, w, l) ==
    [balance |-> b, holdings |-> h, trade_history |-> th, wins |-> w, losses |-> l]

NoTrade == <<"No trade executed">>
Returned(sim, msg) == [sim |-> sim, ret |-> msg, raised |-> "none"]
Raised(sim, exc) == [sim |-> sim, ret |-> None, raised |-> exc]

\* variant: self.balance >= 0
buy_fires_nonneg(sig, bal) == sig = "BUY" /\ RLe(Zero, bal)

\* variant: a BUY needs more than 100 of balance
buy_fires_min_balance(sig, bal) == sig = "BUY" /\ RLt(Hundred, bal)

\* variant: no balance check
buy_fires_unchecked(sig, bal) == sig = "BUY"

buy_fires(sig, bal) == sig = "BUY" /\ RLt(Zero, bal)

sell_fires(sig, hold) == sig = "SELL" /\ RLt(Zero, hold)

\* variant: allocation * price
buy_holdings_times_price(hold, allocation, p) == RMul(allocation, p)

\* holdings after a BUY of allocation at price p
buy_holdings(hold, allocation, p) == RDiv(allocation, p)

\* variant: the BUY is not entered in the ledger
buy_branch_no_record(sim, p) ==
    LET allocation == RMul(sim.balance, AllocationFraction)
        h == RDiv(allocation, p)
        b == RSub(sim.balance, allocation)
    IN  Returned(Sim(b, h, sim.trade_history, sim.wins, sim.losses),
                 <<"BUY executed at", p>>)

buy_branch(sim, p) ==
    LET allocation == RMul(sim.balance, AllocationFraction)
        h == buy_holdings(sim.holdings, allocation, p)
        b == RSub(sim.balance, allocation)
    IN  Returned(Sim(b, h, Append(sim.trade_history, <<"BUY", p, h, b>>),
                     sim.wins, sim.losses),
                 <<"BUY executed at", p>>)

\* profit_percent > 1 or short_ema < long_ema * 0.999, evaluated left to
\* right: execute_trade has no local, parameter or module global named
\* short_ema, so reaching the right operand raises NameError
sell_gate(profit_percent) ==
    IF RLt(ProfitThreshold, profit_percent) THEN "pass" ELSE "NameError"

\* variant: every realized SELL counts as a loss
count_result_as_loss(w, l, profit) == <<w, l + 1>>

\* wins and losses after a realized SELL
count_result(w, l, profit) ==
    IF RLt(Zero, profit) THEN <<w + 1, l>> ELSE <<w, l + 1>>

sell_branch(sim, p) ==
    IF sim.trade_history = << >> THEN Raised(sim, "IndexError") ELSE
    LET proceeds == RMul(sim.holdings, p)
        last == sim.trade_history[Len(sim.trade_history)]
        buy_price == last[2]
        profit == RSub(proceeds, RMul(buy_price, sim.holdings))
        profit_percent == RMul(RDiv(RSub(p, buy_price), buy_price), Hundred)
        gate == sell_gate(profit_percent)
        b == RAdd(sim.balance, proceeds)
        wl == count_result(sim.wins, sim.losses, profit)
    IN  IF gate = "pass"
        THEN Returned(Sim(b, Zero,
                          Append(sim.trade_history, <<"SELL", p, proceeds, b, profit>>),
                          wl[1], wl[2]),
                      <<"SELL executed at", p>>)
        ELSE IF gate = "fail" THEN Returned(sim, NoTrade)
        ELSE Raised(sim, gate)

execute_trade(sim, sig, p) ==
    IF buy_fires(sig, sim.balance) THEN buy_branch(sim, p)
    ELSE IF sell_fires(sig, sim.holdings) THEN sell_branch(sim, p)
    ELSE Returned(sim, NoTrade)

\* variant: the total counts closed trades only
get_trade_summary_closed_only(sim) ==
    <<sim.wins, sim.losses, sim.wins + sim.losses>>

get_trade_summary(sim) == <<sim.wins, sim.losses, Len(sim.trade_history)>>

----------------------------------------------------------------------------
(* State after construction: TradeEngine(), PaperTradeSimulator(b) *)

Constructed(b) ==
    /\ prices = << >>
    /\ last_buy_price = None
    /\ balance = R(b)
    /\ holdings = Zero
    /\ trade_history = << >>
    /\ wins = 0
    /\ losses = 0
    /\ price = None
    /\ signal = "unbound"
    /\ trade_message = None
    /\ short_ema = None
    /\ long_ema = None
    /\ pc = "top"
    /\ error = "none"
    /\ ticks = 0
    /\ changes = 0
    /\ observed = << >>
    /\ buy_signals = {}
    /\ keybuf = << >>

Init == Constructed(InitialBalance)

CurSim == Sim(balance, holdings, trade_history, wins, losses)

SetSim(s) ==
    /\ balance' = s.balance
    /\ holdings' = s.holdings
    /\ trade_history' = s.trade_history
    /\ wins' = s.wins
    /\ losses' = s.losses

\* the feed returns p: either the price it returned last, or one more change
FeedStep(p, maxChanges) ==
    IF observed = << >> \/ observed[Len(observed)] = R(p)
    THEN changes' = changes
    ELSE changes < maxChanges /\ changes' = changes + 1

----------------------------------------------------------------------------
(* trade_dashboard *)

\* get_price returned a price: update_price, generate_signal, execute_trade
TickPrice(p) ==
    /\ pc = "top"
    /\ ticks < MaxTicks
    /\ FeedStep(p, MaxChanges)
    /\ LET ps == update_price(prices, R(p))
           g == generate_signal(ps, last_buy_price)
           ex == execute_trade(CurSim, g.signal, R(p))
       IN  /\ price' = R(p)
           /\ prices' = ps
           /\ observed' = Append(observed, R(p))
           /\ last_buy_price' = g.last_buy_price
           /\ short_ema' = g.short_ema
           /\ long_ema' = g.long_ema
           /\ signal' = g.signal
           /\ buy_signals' = IF g.signal = "BUY" THEN buy_signals \cup {R(p)}
                             ELSE buy_signals
           /\ SetSim(ex.sim)
           /\ IF ex.raised = "none"
              THEN trade_message' = ex.ret /\ pc' = "draw" /\ error' = error
              ELSE trade_message' = trade_message /\ pc' = "crashed"
                   /\ error' = ex.raised
    /\ ticks' = ticks + 1
    /\ UNCHANGED keybuf

\* variant: the skipped tick still feeds the previous price to the engine
TickNoPrice_observes ==
    /\ pc = "top"
    /\ ticks < MaxTicks
    /\ price' = None
    /\ pc' = "draw"
    /\ ticks' = ticks + 1
    /\ prices' = IF prices = << >> THEN prices
                 ELSE update_price(prices, prices[Len(prices)])
    /\ UNCHANGED <<last_buy_price, short_ema, long_ema, observed, buy_signals,
                   simVars, signal, trade_message, error, changes, keybuf>>

\* get_price caught an exception and returned None: the if body is skipped
TickNoPrice ==
    /\ pc = "top"
    /\ ticks < MaxTicks
    /\ price' = None
    /\ pc' = "draw"
    /\ ticks' = ticks + 1
    /\ UNCHANGED <<engineVars, simVars, signal, trade_message, error, changes,
                   keybuf>>

\* the drawing code: formats price, then the summary, then trade_message
Draw ==
    /\ pc = "draw"
    /\ IF price = None
       THEN pc' = "crashed" /\ error' = "TypeError"
       ELSE IF trade_message = None
       THEN pc' = "crashed" /\ error' = "UnboundLocalError"
       ELSE pc' = "getch" /\ error' = error
    /\ UNCHANGED <<engineVars, simVars, price, signal, trade_message, ticks,
                   changes, keybuf>>

Keys == {"q", "none"}

\* variant: the key is read but never compared
GetchKey_ignores_quit(key) ==
    /\ pc = "getch"
    /\ pc' = "top"
    /\ UNCHANGED <<engineVars, simVars, price, signal, trade_message, error,
                   ticks, changes>>

\* stdscr.getch() returned key: break on "q", else the next iteration
GetchKey(key) ==
    /\ pc = "getch"
    /\ pc' = IF key = "q" THEN "done" ELSE "top"
    /\ UNCHANGED <<engineVars, simVars, price, signal, trade_message, error,
                   ticks, changes>>

\* the input queue is not tracked: whatever key is at its head, or none
Getch ==
    /\ \E key \in Keys : GetchKey(key)
    /\ UNCHANGED keybuf

Next ==
    \/ \E p \in Prices : TickPrice(p)
    \/ TickNoPrice
    \/ Draw
    \/ Getch

Spec == Init /\ [][Next]_vars

----------------------------------------------------------------------------
(* trade_dashboard with the terminal input queue: keys are typed at any    *)
(* time and stdscr.getch() takes the oldest one                            *)

TypedKeys == {"q", "x"}

KeyPress(k) ==
    /\ pc \notin {"done", "crashed"}
    /\ Len(keybuf) < MaxPending
    /\ keybuf' = Append(keybuf, k)
    /\ UNCHANGED <<engineVars, simVars, price, signal, trade_message, pc,
                   error, ticks, changes>>

QuitTick(p) == ticks < QuitMaxTicks /\ TickPrice(p)

QuitTickNoPrice == ticks < QuitMaxTicks /\ TickNoPrice

Poll ==
    IF keybuf = << >>
    THEN GetchKey("none") /\ keybuf' = keybuf
    ELSE GetchKey(Head(keybuf)) /\ keybuf' = Tail(keybuf)

\* the steps of the loop itself
QuitLoop ==
    \/ \E p \in Prices : QuitTick(p)
    \/ QuitTickNoPrice
    \/ Draw
    \/ Poll

QuitNext ==
    \/ \E k \in TypedKeys : KeyPress(k)
    \/ QuitLoop

\* the loop keeps running: no step of it is postponed forever
QuitSpec == Init /\ [][QuitNext]_vars /\ WF_vars(QuitLoop)

----------------------------------------------------------------------------
(* TradeEngine.update_price called directly *)

Observe(p) ==
    /\ Len(observed) < WinMaxObs
    /\ FeedStep(p, WinMaxChanges)
    /\ prices' = update_price(prices, R(p))
    /\ observed' = Append(observed, R(p))
    /\ UNCHANGED <<last_buy_price, short_ema, long_ema, buy_signals, simVars,
                   price, signal, trade_message, pc, error, ticks, keybuf>>

WindowNext == \E p \in Prices : Observe(p)

WindowSpec == Init /\ [][WindowNext]_vars

----------------------------------------------------------------------------
(* PaperTradeSimulator.execute_trade called directly *)

Signals == {"BUY", "SELL", "HOLD"}

SimInit == \E b \in InitBalances : Constructed(b)

Call(sig, p) ==
    /\ ticks < MaxCalls
    /\ LET ex == execute_trade(CurSim, sig, R(p))
       IN  /\ SetSim(ex.sim)
           /\ trade_message' = ex.ret
           /\ error' = ex.raised
    /\ signal' = sig
    /\ price' = R(p)
    /\ ticks' = ticks + 1
    /\ UNCHANGED <<engineVars, pc, changes, keybuf>>

SimNext == \E sig \in Signals, p \in Prices : Call(sig, p)

SimSpec == SimInit /\ [][SimNext]_vars

----------------------------------------------------------------------------
(* Vocabulary of the properties *)

\* this step ran update_price, generate_signal and execute_trade (Spec),
\* or execute_trade alone (SimSpec)
ExecuteCalled == ticks' # ticks /\ price' # None

\* price field of the most recent trade record
LedgerBuyPrice == trade_history[Len(trade_history)][2]

\* (price - buyPrice) / buyPrice * 100
ProfitPercentAt(p) ==
    RMul(RDiv(RSub(p, LedgerBuyPrice), LedgerBuyPrice), Hundred)

\* holdings * price - buyPrice * holdings
ProfitAt(p) == RSub(RMul(holdings, p), RMul(LedgerBuyPrice, holdings))

RecordAppended(side) ==
    /\ Len(trade_history') = Len(trade_history) + 1
    /\ trade_history'[Len(trade_history')][1] = side

\* the arithmetic mean of the last k entries of a window of at least k
MeanOfLast(ps, k) ==
    LET n == Len(ps)
        total[i \in 0..k] ==
            IF i = 0 THEN Zero ELSE RAdd(total[i - 1], ps[n - k + i])
    IN  RDiv(total[k], R(k))

SellSignalHeldBelowTarget ==
    /\ ExecuteCalled
    /\ signal' = "SELL"
    /\ RLt(Zero, holdings)
    /\ RLe(ProfitPercentAt(price'), One)

----------------------------------------------------------------------------
(* C1: when execute is called with SELL, holdings > 0, profitPercent <= 1  *)
(* and this tick's shortAvg >= longAvg * 0.999, it returns the no-trade    *)
(* outcome without raising and leaves balance, holdings, ledger, wins and  *)
(* losses unchanged.                                                       *)
C1_SellGateFailIsNoOp ==
    [][(/\ SellSignalHeldBelowTarget
        /\ RLe(RMul(long_ema', SharpDropFactor), short_ema'))
       => (/\ error' = "none"
           /\ pc' # "crashed"
           /\ trade_message' = NoTrade
           /\ UNCHANGED simVars)]_vars

(* C2: a tick whose fetch returned no price goes on to the key poll and    *)
(* the next tick; a failed fetch never ends the loop.                      *)
C2_FeedFailureNeverTerminates ==
    [][(pc = "draw" /\ price = None) => pc' = "getch"]_vars

(* C3: an executed BUY adds allocation / price to holdings and takes       *)
(* allocation = 0.75 * balance from balance, so balance + holdings * price *)
(* is the same before and after it, also when holdings was already > 0.    *)
C3_BuyIsAdditive ==
    [][(ExecuteCalled /\ RecordAppended("BUY"))
       => LET allocation == RMul(balance, <<3, 4>>)
          IN  /\ holdings' = RAdd(holdings, RDiv(allocation, price'))
              /\ balance' = RSub(balance, allocation)
              /\ RAdd(balance', RMul(holdings', price'))
                   = RAdd(balance, RMul(holdings, price'))]_vars

(* C4: when execute is called with SELL, holdings > 0, profitPercent <= 1  *)
(* and this tick's shortAvg < longAvg * 0.999, the sale is executed:       *)
(* balance grows by holdings * price, holdings becomes 0 and one SELL      *)
(* record is appended.                                                     *)
C4_SharpDropSells ==
    [][(/\ SellSignalHeldBelowTarget
        /\ RLt(short_ema', RMul(long_ema', SharpDropFactor)))
       => (/\ balance' = RAdd(balance, RMul(holdings, price'))
           /\ holdings' = Zero
           /\ RecordAppended("SELL"))]_vars

(* C5: execute called with SELL while holdings = 0, with BUY while         *)
(* balance = 0, or with HOLD, returns the no-trade outcome without raising *)
(* and leaves balance, holdings, ledger, wins and losses unchanged.        *)
C5_InvalidStateIsNoOp ==
    [][(/\ ExecuteCalled
        /\ \/ signal' = "SELL" /\ holdings = Zero
           \/ signal' = "BUY" /\ balance = Zero
           \/ signal' = "HOLD")
       => (/\ error' = "none"
           /\ trade_message' = NoTrade
           /\ UNCHANGED simVars)]_vars

C5_Witness ==
    /\ ticks > 0
    /\ signal = "BUY"
    /\ balance = Zero
    /\ trade_message = NoTrade
    /\ trade_history = << >>

(* C6: a BUY is emitted at price P' only if P' > P * 1.001 for every price *)
(* P at which a BUY was emitted before, and an emitted BUY sets            *)
(* LastBuyPrice to its price.                                              *)
C6_RebuySuppression ==
    [][(ExecuteCalled /\ signal' = "BUY")
       => (/\ \A P \in buy_signals : RLt(RMul(P, <<1001, 1000>>), price')
           /\ last_buy_price' = price')]_vars

\* two BUYs were emitted and the latest tick, with shortAvg > longAvg and a
\* price not above the threshold, was held back
C6_Witness ==
    /\ Cardinality(buy_signals) >= 2
    /\ signal = "HOLD"
    /\ short_ema # None
    /\ RLt(long_ema, short_ema)
    /\ RLe(price, RMul(last_buy_price, <<1001, 1000>>))

(* C7: with at least 16 samples the signal is BUY iff mean(last 8) >       *)
(* mean(last 16) and (LastBuyPrice unset or latest price > LastBuyPrice *  *)
(* 1.001); otherwise SELL iff mean(last 8) < mean(last 16); otherwise HOLD *)
C7_SignalPrecedence ==
    [][(ExecuteCalled /\ Len(prices') >= 16)
       => LET sa == MeanOfLast(prices', 8)
              la == MeanOfLast(prices', 16)
              buy == /\ RLt(la, sa)
                     /\ \/ last_buy_price = None
                        \/ RLt(RMul(last_buy_price, <<1001, 1000>>), price')
          IN  /\ signal' = "BUY" <=> buy
              /\ signal' = "SELL" <=> (~ buy /\ RLt(sa, la))
              /\ signal' = "HOLD" <=> (~ buy /\ ~ RLt(sa, la))]_vars

\* a suppressed BUY gave HOLD after an earlier tick with equal averages
C7_Witness ==
    /\ Len(prices) >= 17
    /\ signal = "HOLD"
    /\ last_buy_price # None
    /\ RLt(MeanOfLast(prices, 16), MeanOfLast(prices, 8))
    /\ pc = "draw"

(* C8: while fewer than 16 prices have been observed, the signal is HOLD,  *)
(* both averages are undefined, LastBuyPrice is unset and no trade has     *)
(* been executed.                                                          *)
C8_InsufficientDataHolds ==
    Len(observed) < 16 =>
        /\ Len(observed) > 0 => signal = "HOLD"
        /\ short_ema = None
        /\ long_ema = None
        /\ last_buy_price = None
        /\ trade_history = << >>
        /\ trade_message \in {None, NoTrade}
        /\ balance = R(InitialBalance)
        /\ holdings = Zero

\* fifteen rising samples, still HOLD
C8_Witness ==
    /\ Len(observed) = 15
    /\ RLt(observed[1], observed[15])
    /\ signal = "HOLD"
    /\ pc = "draw"

(* C9: after n observe calls the window holds exactly the last min(n, 50)  *)
(* observed prices in observation order; its length never exceeds 50.      *)
C9_WindowIsFifo ==
    LET n == Len(observed)
        m == IF n < 50 THEN n ELSE 50
    IN  /\ Len(prices) = m
        /\ \A i \in 1..m : prices[i] = observed[n - m + i]

\* more than 50 observed, and the evicted sample differs from the new head
C9_Witness ==
    /\ Len(observed) > 50
    /\ observed[1] # prices[1]

(* C10: an executed SELL whose profit is > 0 increments wins by exactly 1  *)
(* and leaves losses unchanged, and no other step changes wins.            *)
C10_WinAccounting ==
    [][/\ (/\ ExecuteCalled
           /\ RecordAppended("SELL")
           /\ RLt(Zero, ProfitAt(price')))
          => (wins' = wins + 1 /\ losses' = losses)
       /\ wins' # wins
          => (/\ ExecuteCalled
              /\ RecordAppended("SELL")
              /\ RLt(Zero, ProfitAt(price')))]_vars

C10_Witness ==
    /\ wins = 1
    /\ losses = 0
    /\ trade_history # << >>
    /\ trade_history[Len(trade_history)][1] = "SELL"
    /\ RLt(R(InitialBalance), balance)

(* C11: a SELL signal with holdings > 0, profit <= 0 and this tick's       *)
(* shortAvg < longAvg * 0.999 is realized: a SELL record is appended,      *)
(* losses grows by exactly 1 and wins is unchanged.                        *)
C11_LossAccounting ==
    [][(/\ ExecuteCalled
        /\ signal' = "SELL"
        /\ RLt(Zero, holdings)
        /\ RLe(ProfitAt(price'), Zero)
        /\ RLt(short_ema', RMul(long_ema', SharpDropFactor)))
       => (/\ RecordAppended("SELL")
           /\ error' = "none"
           /\ losses' = losses + 1
           /\ wins' = wins)]_vars

(* C12: on a tick whose fetch yields no price, the price window,           *)
(* LastBuyPrice, balance, holdings, ledger, wins and losses are the same   *)
(* before and after every step of the tick.                                *)
C12_FailedFetchMutatesNothing ==
    [][(price' = None /\ ticks' > 0)
       => UNCHANGED <<prices, last_buy_price, simVars>>]_vars

\* a fetch failed after a position was opened
C12_Witness ==
    /\ price = None
    /\ pc = "draw"
    /\ Len(prices) >= 16
    /\ RLt(Zero, holdings)
    /\ last_buy_price # None

(* C13: whenever holdings > 0, the ledger is non-empty and its most recent *)
(* record is a BUY record.                                                 *)
C13_HoldingsImplyLastRecordIsBuy ==
    RLt(Zero, holdings) =>
        /\ trade_history # << >>
        /\ trade_history[Len(trade_history)][1] = "BUY"

\* holding again after a closed position
C13_Witness ==
    /\ RLt(Zero, holdings)
    /\ Len(trade_history) >= 3
    /\ trade_history[Len(trade_history) - 1][1] = "SELL"

(* C14: from balance 230 and holdings 0 an executed BUY at price 100       *)
(* allocates 172.5 and leaves holdings 1.725, balance 57.5; a following    *)
(* SELL at price 102 executes with proceeds 175.95 and profit 3.45 and     *)
(* leaves wins 1, losses 0, balance 233.45, holdings 0.                    *)
C14_RoundTripArithmetic ==
    [][/\ (/\ ExecuteCalled
           /\ balance = R(230) /\ holdings = Zero
           /\ signal' = "BUY" /\ price' = R(100))
          => (/\ RecordAppended("BUY")
              /\ RSub(balance, balance') = <<345, 2>>
              /\ holdings' = <<69, 40>>
              /\ balance' = <<115, 2>>)
       /\ (/\ ExecuteCalled
           /\ trade_history = << <<"BUY", R(100), <<69, 40>>, <<115, 2>>>> >>
           /\ balance = <<115, 2>> /\ holdings = <<69, 40>>
           /\ wins = 0 /\ losses = 0
           /\ signal' = "SELL" /\ price' = R(102))
          => (/\ RecordAppended("SELL")
              /\ trade_history'[2][3] = <<3519, 20>>
              /\ trade_history'[2][5] = <<69, 20>>
              /\ wins' = 1 /\ losses' = 0
              /\ balance' = <<4669, 20>>
              /\ holdings' = Zero)]_vars

C14_Witness ==
    /\ Len(trade_history) = 2
    /\ trade_history[1][1] = "BUY" /\ trade_history[1][2] = R(100)
    /\ trade_history[2][1] = "SELL" /\ trade_history[2][2] = R(102)
    /\ balance = <<4669, 20>>
    /\ wins = 1

(* C16: balance >= 0 and holdings >= 0 in every state; a BUY changes the   *)
(* portfolio only when balance > 0 and a SELL only when holdings > 0.      *)
C16_NoLeverageNoShort ==
    /\ RLe(Zero, balance) /\ RLe(Zero, holdings)
    /\ [][/\ RLe(Zero, balance') /\ RLe(Zero, holdings')
          /\ (ExecuteCalled /\ signal' = "BUY" /\ simVars' # simVars)
             => RLt(Zero, balance)
          /\ (ExecuteCalled /\ signal' = "SELL" /\ simVars' # simVars)
             => RLt(Zero, holdings)]_vars

\* two positions opened and closed
C16_Witness ==
    /\ Len(trade_history) = 4
    /\ trade_history[4][1] = "SELL"
    /\ holdings = Zero
    /\ RLt(Zero, balance)

(* C17: LastBuyPrice changes only in a step where evaluate emits BUY, and  *)
(* every emitted BUY sets it to the latest price; SELL, HOLD, an executed  *)
(* SELL, a no-op and a failed tick leave it as it was.                     *)
C17_LastBuyPriceOnlySetOnBuy ==
    [][/\ last_buy_price' # last_buy_price
          => (ExecuteCalled /\ signal' = "BUY")
       /\ (ExecuteCalled /\ signal' = "BUY")
          => last_buy_price' = price']_vars

\* the position is closed and LastBuyPrice is still the price of its BUY
C17_Witness ==
    /\ Len(trade_history) >= 2
    /\ trade_history[Len(trade_history)][1] = "SELL"
    /\ holdings = Zero
    /\ last_buy_price = trade_history[Len(trade_history) - 1][2]
    /\ signal = "SELL"

(* C18: from the initial balance 230 the balance is > 0 in every state of  *)
(* the run loop, and every BUY signal emitted by the engine is executed by *)
(* the simulator.                                                          *)
C18_BalancePositiveBuyExecuted ==
    /\ RLt(Zero, balance)
    /\ [][/\ RLt(Zero, balance')
          /\ (ExecuteCalled /\ signal' = "BUY")
             => (/\ RecordAppended("BUY")
                 /\ trade_message' = <<"BUY executed at", price'>>)]_vars

\* two BUYs in a row, a sixteenth of the balance left
C18_Witness ==
    /\ Len(trade_history) = 2
    /\ trade_history[1][1] = "BUY"
    /\ trade_history[2][1] = "BUY"
    /\ balance = <<115, 8>>

\* price of the most recent BUY record, None when the ledger has none
LastBuyRecordPrice ==
    LET buys == {i \in 1..Len(trade_history) : trade_history[i][1] = "BUY"}
    IN  IF buys = {} THEN None
        ELSE trade_history[CHOOSE i \in buys : \A j \in buys : j <= i][2]

(* C19: LastBuyPrice is unset iff the ledger has no BUY record, and        *)
(* otherwise equals the price of the most recent BUY record.               *)
C19_EngineAndLedgerAgree ==
    last_buy_price = LastBuyRecordPrice

\* at a tick boundary after a second BUY at a higher price
C19_Witness ==
    /\ pc = "top"
    /\ Len(trade_history) = 2
    /\ trade_history[2][1] = "BUY"
    /\ RLt(trade_history[1][2], trade_history[2][2])
    /\ last_buy_price = trade_history[2][2]

LedgerCount(side) ==
    Cardinality({i \in 1..Len(trade_history) : trade_history[i][1] = side})

(* C20: the ledger grows only by appending one record per executed trade;  *)
(* its first record is a BUY; every SELL record is immediately preceded by *)
(* a BUY record; wins + losses is the number of SELL records; totalTrades  *)
(* of the trade summary is the number of BUY records plus SELL records.    *)
C20_LedgerShape ==
    /\ [](/\ trade_history # << >> => trade_history[1][1] = "BUY"
          /\ \A i \in 1..Len(trade_history) :
                trade_history[i][1] = "SELL"
                => (i > 1 /\ trade_history[i - 1][1] = "BUY")
          /\ wins + losses = LedgerCount("SELL")
          /\ get_trade_summary(CurSim)[3]
               = LedgerCount("BUY") + LedgerCount("SELL"))
    /\ [][/\ \/ trade_history' = trade_history
             \/ /\ Len(trade_history') = Len(trade_history) + 1
                /\ SubSeq(trade_history', 1, Len(trade_history)) = trade_history
                /\ ExecuteCalled
          /\ (ExecuteCalled /\ error' = "none" /\ trade_message' # NoTrade)
             => Len(trade_history') = Len(trade_history) + 1]_vars

C20_Witness ==
    /\ Len(trade_history) = 5
    /\ trade_history[2][1] = "SELL"
    /\ trade_history[4][1] = "SELL"
    /\ wins = 2

QuitPending == \E i \in 1..Len(keybuf) : keybuf[i] = "q"

(* C15: a quit request is acted on only at the key poll that follows the   *)
(* drawing of the current tick; the poll that reads it stops the loop;     *)
(* after that no fetch, observe, evaluate or execute occurs; and a pending *)
(* quit request ends the loop if the loop keeps ticking.                   *)
C15_QuitAtTickBoundary ==
    /\ [][/\ (pc' = "done" /\ pc # "done")
             => (pc = "getch" /\ keybuf # << >> /\ Head(keybuf) = "q")
          /\ (pc = "getch" /\ pc' # "getch" /\ keybuf # << >> /\ Head(keybuf) = "q")
             => pc' = "done"
          /\ pc = "done"
             => UNCHANGED <<engineVars, simVars, price, signal, trade_message,
                            pc, error, ticks>>]_vars
    /\ (QuitPending /\ ticks + Len(keybuf) <= QuitMaxTicks)
          ~> (pc \in {"done", "crashed"})

\* the quit typed before another key was read at the end of the second tick
C15_Witness ==
    /\ pc = "done"
    /\ ticks = 2
    /\ keybuf = <<"x">>
    /\ price # None

====
